---- MODULE Spec2Model ----
(***************************************************************************)
(* State-machine model of the animated GPU resource pipeline of the        *)
(* learn-wgpu tutorials:                                                   *)
(*   - HilbertCurveApp (intermediate/hilbert-curve/src/hilbert_curve_app.rs)*)
(*     set_window_resized / resize_surface_if_needed / render              *)
(*   - ParticleInk (intermediate/vertex-animation/src/particle_ink.rs)     *)
(*     cal_particles_move / enter_frame / init_frame_uniforms              *)
(*   - WgpuApp and WgpuAppHandler (beginner/tutorial2-surface/src/main.rs) *)
(*     resumed / window_event / set_window_resized / render                *)
(*   - OptionMutExt (beginner/tutorial4-buffer/src/main.rs)                *)
(*     replace_sp / replace_with_sp                                        *)
(* A vertex buffer is modelled by the curve last written into it (its      *)
(* dimension, whether its vertices were repeated four times, and its       *)
(* record count); a surface size by its width and height.                  *)
(***************************************************************************)
EXTENDS Integers, Sequences, FiniteSets, TLC

\* ------------------------------------------------------------------ bounds
\* Window widths and heights the event loop may report.
MaxWidth == 2
MaxHeight == 1
\* Number of whole particle cycles that are observed.
MaxBlocks == 2
\* The scaled-down curve animation of the spec's testable property 6.
SmallDrawCount == 3
SmallMaxPhase == 2
TraceLen == 12
\* Number of render() calls followed when resize notifications are observed.
MaxFrames == 3
\* Number of WgpuApp initialisations that may be in flight at once.
MaxTasks == 2
\* Resize notifications counted between two render() calls.
MaxSince == 2
\* Largest frame count init_frame_uniforms is called with, besides 180.
MaxFrameCount == 14
\* Largest value held by an Option or passed to replace_sp.
MaxValue == 7

\* ------------------------------------------------------- program constants
\* let draw_count = 60 * 3;
draw_count == 60 * 3
\* let offset_buffer_size = 256;  and  256 * self.animate_index
offset_buffer_size == 256
\* the literal 6 in `self.curve_dimention < 6`
MaxDimension == 6
\* HilbertCurve::new(5) in the buffer size computation
CapacityDimension == 5
\* (4 * 4 * 3) bytes per vertex of HilbertCurve::new(5)
BytesPerCapacityVertex == 4 * 4 * 3
\* let frame_count = 180;  (ParticleInk::new)
frame_count == 180

\* ------------------------------------------------------ HilbertCurve (spec)
\* Byte size of one vertex record.
VertexStride == 12

RECURSIVE Pow4(_)
Pow4(d) == IF d = 0 THEN 1 ELSE 4 * Pow4(d - 1)

\* HilbertCurve::new(d).vertices.len(): a curve of dimension d has four
\* times the vertices of a curve of dimension d - 1.
VertexCount(d) == Pow4(d)

\* HilbertCurve::four_times_vertices: every vertex is repeated four times.
four_times_vertices(curve) ==
    [curve EXCEPT !.quad = TRUE, !.len = 4 * curve.len]

\* HilbertCurve::new(d)
HilbertCurve(d) == [dim |-> d, quad |-> FALSE, len |-> VertexCount(d)]

\* A buffer nothing has been written to yet.
EmptyBuffer == [dim |-> 0, quad |-> FALSE, len |-> 0]

\* ------------------------------------------------------------------- state
VARIABLES
    size,               \* HilbertCurveApp.size
    size_changed,       \* HilbertCurveApp.size_changed
    config,             \* HilbertCurveApp.app.config (width, height)
    mvp_viewport,       \* viewport of the SceneUniform held by mvp_buffer
    vertex_buffers,     \* the two ping-pong vertex buffers
    curve_vertex_count, \* HilbertCurveApp.curve_vertex_count
    animate_index,      \* HilbertCurveApp.animate_index
    curve_dimention,    \* HilbertCurveApp.curve_dimention
    is_animation_up,    \* HilbertCurveApp.is_animation_up
    panicked,           \* the process was aborted by a rejected buffer write
    frame,              \* what the last render() call did
    notified,           \* argument of the last set_window_resized call
    trace,              \* phase in effect at the draw of each render() call
    ink_animate_index,  \* ParticleInk.animate_index
    ink_completed,      \* value returned by the last enter_frame call
    ink_calls,          \* number of enter_frame calls so far
    ink_trues,          \* number of enter_frame calls that returned true
    ink_pass,           \* computations recorded by the last compute pass
    ink_resets,         \* reset computations recorded so far
    ink_dyn_off,        \* dynamic offset of the last draw: <<>> or <<offset>>
    surface_log,        \* HilbertCurveApp: surface reconfigurations observed
    t2_target,          \* tutorial2-surface: target_arch of the running build
    t2_app,             \* WgpuAppHandler.app: <<>> (None) or <<WgpuApp>>
    t2_missed_resize,   \* WgpuAppHandler.missed_resize (NoSize is None)
    t2_missed_request_redraw, \* WgpuAppHandler.missed_request_redraw
    t2_tasks,           \* WgpuApp initialisations spawned and not completed
    t2_windows,         \* windows created by resumed()
    t2_redraw,          \* a redraw has been requested and not yet delivered
    t2_early,           \* last non-zero Resized event that found no app
    t2_applied,         \* argument of set_window_resized at init completion
    t2_log,             \* tutorial2-surface: what the last handler did
    t2_frame,           \* tutorial2-surface: the last render() call and event
    call,               \* the table-building loop in progress, if any
    option              \* an Option<T> and the last OptionMutExt call on it

hilbertVars == <<size, size_changed, config, mvp_viewport, vertex_buffers,
                 curve_vertex_count, animate_index, curve_dimention,
                 is_animation_up, panicked, frame, notified, trace,
                 surface_log>>
inkVars == <<ink_animate_index, ink_completed, ink_calls, ink_trues,
             ink_pass, ink_resets, ink_dyn_off>>
t2Vars == <<t2_target, t2_app, t2_missed_resize, t2_missed_request_redraw,
            t2_tasks, t2_windows, t2_redraw, t2_early, t2_applied, t2_log,
            t2_frame>>
vars == <<hilbertVars, inkVars, t2Vars, call, option>>
\* What the actions of one program leave alone: the other programs.
notHilbert == <<inkVars, t2Vars, call, option>>
notInk == <<hilbertVars, t2Vars, call, option>>
notT2 == <<hilbertVars, inkVars, call, option>>

Sizes == [width : 1..MaxWidth, height : 1..MaxHeight]
NoSize == [width |-> 0, height |-> 0]
\* What is observed of the surface.  since: resize notifications since the
\* last render() call (counted up to MaxSince); rendered: render() has been
\* called; configured: surface reconfigurations made by the last render()
\* call; before: notifications that preceded it; twice: it directly followed,
\* with no notification in between, a render() call that reconfigured.
NoLog == [since |-> 0, rendered |-> FALSE, configured |-> 0, before |-> 0,
          twice |-> FALSE]
log_notified(log) ==
    [log EXCEPT !.since = IF log.since < MaxSince THEN log.since + 1
                          ELSE MaxSince]
log_rendered(log, n) ==
    [since |-> 0, rendered |-> TRUE, configured |-> n, before |-> log.since,
     twice |-> log.rendered /\ log.since = 0 /\ log.configured = 1]
\* What is observed of the frames of tutorial2-surface.  returned: what the
\* last render() call of the app returned; submitted: it submitted and
\* presented a frame; minimised: the last event handled was a Resized with
\* a zero side.
NoT2Frame == [returned |-> "none", submitted |-> FALSE, minimised |-> FALSE]
\* An Option<T> is <<>> (None) or <<x>> (Some(x)).  opt: the option; op: the
\* last method called on it; before, val: the option and the argument (or
\* the closure's result) of that call; ret: what the call returned; f_calls:
\* how often the call ran its closure.
NoOption == [opt |-> <<>>, op |-> "none", before |-> <<>>, val |-> 0,
             ret |-> <<>>, f_calls |-> 0]
\* No table-building loop is running.
NoCall == [fn |-> "none", n |-> 0, step |-> 0, out |-> <<>>]
NoFrame == [result |-> "none", instance_count |-> 0, dyn_off |-> 0,
            start_len |-> 0, target_len |-> 0,
            start_dim |-> 0, target_dim |-> 0,
            wrote |-> {}, wrapped |-> FALSE, first |-> FALSE]

\* HilbertCurveApp::new, ParticleInk::new and WgpuAppHandler::default
Constructed ==
    /\ config \in Sizes
    /\ size = config
    /\ size_changed = FALSE
    /\ mvp_viewport = config
    /\ vertex_buffers = <<EmptyBuffer, EmptyBuffer>>
    /\ curve_vertex_count = 0
    /\ animate_index = 0
    /\ curve_dimention = 1
    /\ is_animation_up = TRUE
    /\ panicked = FALSE
    /\ frame = NoFrame
    /\ notified = NoSize
    /\ trace = <<>>
    /\ ink_animate_index = 0
    /\ ink_completed = FALSE
    /\ ink_calls = 0
    /\ ink_trues = 0
    /\ ink_pass = <<>>
    /\ ink_resets = 0
    /\ ink_dyn_off = <<>>
    /\ surface_log = NoLog
    /\ t2_target = "unstarted"
    /\ t2_app = <<>>
    /\ t2_missed_resize = NoSize
    /\ t2_missed_request_redraw = FALSE
    /\ t2_tasks = 0
    /\ t2_windows = 0
    /\ t2_redraw = FALSE
    /\ t2_early = NoSize
    /\ t2_applied = NoSize
    /\ t2_log = NoLog
    /\ t2_frame = NoT2Frame

Init == Constructed /\ call = NoCall /\ option = NoOption

\* ------------------------------------------------------------ vertex buffers
\* let size = (4 * 4 * 3) * HilbertCurve::new(5).vertices.len() as u64;
VertexBufferSize == BytesPerCapacityVertex * VertexCount(CapacityDimension)

\* queue.write_buffer(&buffer, 0, data) is valid only if data fits the buffer.
Fits(curve) == curve.len * VertexStride <= VertexBufferSize

\* queue.write_buffer(&self.vertex_buffers[i], 0, cast_slice(&curve.vertices)):
\* a write that overruns the buffer is rejected and leaves it as it was.
write_buffer(bufs, i, curve) ==
    IF Fits(curve) THEN [bufs EXCEPT ![i] = curve] ELSE bufs

\* The two write_buffer calls of a populate, in program order.  A rejected
\* write is a wgpu validation error: the uncaptured-error handler either
\* aborts the process ("panic", native default) or reports the error and
\* lets the program go on ("reject", browser).
populate(bufs, start, target, onOverrun) ==
    LET p0 == ~Fits(start) /\ onOverrun = "panic"
        b0 == write_buffer(bufs, 1, start)
        p1 == ~p0 /\ ~Fits(target) /\ onOverrun = "panic"
        b1 == IF p0 THEN b0 ELSE write_buffer(b0, 2, target)
    IN  [bufs  |-> b1,
         panic |-> p0 \/ p1,
         wrote |-> (IF Fits(start) THEN {1} ELSE {})
                   \cup (IF ~p0 /\ Fits(target) THEN {2} ELSE {})]

\* -------------------------------------------------------------------- resize
\* HilbertCurveApp::set_window_resized
set_window_resized(new_size) ==
    IF config.width = new_size.width /\ config.height = new_size.height
    THEN [size |-> size, size_changed |-> size_changed]
    ELSE [size |-> new_size, size_changed |-> TRUE]

\* A Resized event delivered to the app; observe tells whether the argument
\* is remembered in notified.
WindowResized(observe) ==
    /\ ~panicked
    /\ \E new_size \in Sizes :
        LET r == set_window_resized(new_size)
        IN  /\ size' = r.size
            /\ size_changed' = r.size_changed
            /\ notified' = IF observe THEN new_size ELSE notified
    /\ surface_log' = IF observe THEN log_notified(surface_log)
                      ELSE surface_log
    /\ UNCHANGED <<config, mvp_viewport, vertex_buffers, curve_vertex_count,
                   animate_index, curve_dimention, is_animation_up, panicked,
                   frame, trace, notHilbert>>

\* Mutant of resize_surface_if_needed: the dirty flag is not cleared.
resize_surface_if_needed_dirty ==
    IF size_changed
    THEN [config |-> size, mvp_viewport |-> size, size_changed |-> TRUE,
          configured |-> 1]
    ELSE [config |-> config, mvp_viewport |-> mvp_viewport,
          size_changed |-> size_changed, configured |-> 0]

\* HilbertCurveApp::resize_surface_if_needed; configured counts the calls of
\* resize_surface_by_size (each followed by one upload of the projection).
resize_surface_if_needed ==
    IF size_changed
    THEN [config |-> size, mvp_viewport |-> size, size_changed |-> FALSE,
          configured |-> 1]
    ELSE [config |-> config, mvp_viewport |-> mvp_viewport,
          size_changed |-> size_changed, configured |-> 0]

\* -------------------------------------------------------------------- render
\* Mutants of advance_index: a wraparound one frame late, no advance, and a
\* restart of the cycle when a resize is pending.
advance_index_late(index, dc) == IF index + 1 > dc THEN 0 ELSE index + 1
advance_index_stuck(index, dc) == index
advance_index_resized(index, dc) == IF size_changed THEN 0 ELSE (index + 1) % dc

\* self.animate_index = (self.animate_index + 1) % self.draw_count;
advance_index(index, dc) == (index + 1) % dc

\* Mutants of next_phase: the upper turn one dimension late, and a turn
\* that flips the direction without moving the dimension.
next_phase_overshoot(dim, up, maxd) ==
    IF up
    THEN IF dim <= maxd
         THEN [dim |-> dim + 1, up |-> up]
         ELSE [dim |-> dim - 1, up |-> FALSE]
    ELSE IF dim > 1
         THEN [dim |-> dim - 1, up |-> up]
         ELSE [dim |-> dim + 1, up |-> TRUE]
next_phase_linger(dim, up, maxd) ==
    IF up
    THEN IF dim < maxd
         THEN [dim |-> dim + 1, up |-> up]
         ELSE [dim |-> dim, up |-> FALSE]
    ELSE IF dim > 1
         THEN [dim |-> dim - 1, up |-> up]
         ELSE [dim |-> dim, up |-> TRUE]

\* The dimension update at a wraparound of animate_index.
next_phase(dim, up, maxd) ==
    IF up
    THEN IF dim < maxd
         THEN [dim |-> dim + 1, up |-> up]
         ELSE [dim |-> dim - 1, up |-> FALSE]
    ELSE IF dim > 1
         THEN [dim |-> dim - 1, up |-> up]
         ELSE [dim |-> dim + 1, up |-> TRUE]

\* let next_dim = if self.is_animation_up { dim + 1 } else { dim - 1 };
next_dim(dim, up) == IF up THEN dim + 1 ELSE dim - 1

\* The start curve of the transition prepared at a wraparound.
start_curve(dim, up) ==
    IF up THEN four_times_vertices(HilbertCurve(dim)) ELSE HilbertCurve(dim)

\* (self.curve_vertex_count as u32).saturating_sub(1)
saturating_sub(a, b) == IF a >= b THEN a - b ELSE 0

\* let dyn_off: wgpu::DynamicOffset = 256 * self.animate_index;
dynamic_offset(index) == offset_buffer_size * index

\* HilbertCurveApp::render with draw_count = dc and maximum dimension maxd;
\* acquire is the outcome of surface.get_current_texture(), onOverrun the
\* outcome of a rejected buffer write; the first traceLen calls are traced.
render(dc, maxd, traceLen, acquire, onOverrun) ==
    LET \* 1. resize_surface_if_needed()
        rs == resize_surface_if_needed
        \* 2. first call: fill the buffers for dimension 1 -> 2
        first == curve_vertex_count = 0
        p1 == IF first
              THEN populate(vertex_buffers,
                            four_times_vertices(HilbertCurve(curve_dimention)),
                            HilbertCurve(curve_dimention + 1), onOverrun)
              ELSE [bufs |-> vertex_buffers, panic |-> FALSE, wrote |-> {}]
        count1 == IF first THEN VertexCount(curve_dimention + 1)
                  ELSE curve_vertex_count
        \* 3. advance the animation index
        index == IF p1.panic THEN animate_index
                 ELSE advance_index(animate_index, dc)
        \* 4. on wraparound switch the dimension and prepare the transition
        wrap == ~p1.panic /\ index = 0
        ph == IF wrap THEN next_phase(curve_dimention, is_animation_up, maxd)
              ELSE [dim |-> curve_dimention, up |-> is_animation_up]
        p2 == IF wrap
              THEN populate(p1.bufs, start_curve(ph.dim, ph.up),
                            HilbertCurve(next_dim(ph.dim, ph.up)), onOverrun)
              ELSE [bufs |-> p1.bufs, panic |-> p1.panic, wrote |-> {}]
        count2 == IF wrap THEN VertexCount(next_dim(ph.dim, ph.up)) ELSE count1
        \* 5. acquire the surface image and draw
        drawn == ~p2.panic /\ acquire = "ok"
    IN  /\ config' = rs.config
        /\ mvp_viewport' = rs.mvp_viewport
        /\ size_changed' = rs.size_changed
        /\ size' = size
        /\ vertex_buffers' = p2.bufs
        /\ curve_vertex_count' = count2
        /\ animate_index' = index
        /\ curve_dimention' = ph.dim
        /\ is_animation_up' = ph.up
        /\ panicked' = p2.panic
        /\ frame' = [result |-> IF p2.panic THEN "panic"
                                ELSE IF drawn THEN "drawn" ELSE "skipped",
                     instance_count |-> IF drawn THEN saturating_sub(count2, 1)
                                        ELSE 0,
                     dyn_off |-> IF drawn THEN dynamic_offset(index) ELSE 0,
                     start_len |-> IF wrap THEN start_curve(ph.dim, ph.up).len
                                   ELSE IF first
                                   THEN 4 * VertexCount(curve_dimention)
                                   ELSE 0,
                     target_len |-> IF wrap \/ first THEN count2 ELSE 0,
                     start_dim |-> IF wrap THEN ph.dim
                                   ELSE IF first THEN curve_dimention ELSE 0,
                     target_dim |-> IF wrap THEN next_dim(ph.dim, ph.up)
                                    ELSE IF first THEN curve_dimention + 1
                                    ELSE 0,
                     wrote |-> p1.wrote \cup p2.wrote,
                     wrapped |-> wrap,
                     first |-> first]
        /\ trace' = IF Len(trace) < traceLen
                    THEN Append(trace, IF drawn THEN ph.dim ELSE 0)
                    ELSE trace
        \* the outcome of a rejected write is a choice only where one occurs
        /\ (onOverrun = "panic") = p2.panic
        /\ UNCHANGED <<notified, notHilbert>>

SetWindowResized == WindowResized(FALSE)

Render ==
    /\ ~panicked
    /\ \E acquire \in {"ok", "err"}, onOverrun \in {"panic", "reject"} :
        render(draw_count, MaxDimension, 0, acquire, onOverrun)
    /\ UNCHANGED surface_log

\* The first TraceLen render() calls of the scaled-down animation.
RenderSmall ==
    /\ ~panicked
    /\ Len(trace) < TraceLen
    /\ \E acquire \in {"ok", "err"}, onOverrun \in {"panic", "reject"} :
        render(SmallDrawCount, SmallMaxPhase, TraceLen, acquire, onOverrun)
    /\ UNCHANGED surface_log

\* Resize notifications, observed, and the first MaxFrames render() calls.
NotifyResized == WindowResized(TRUE)

RenderFirst ==
    /\ ~panicked
    /\ animate_index < MaxFrames
    /\ \E acquire \in {"ok", "err"}, onOverrun \in {"panic", "reject"} :
        render(draw_count, MaxDimension, 0, acquire, onOverrun)
    /\ surface_log' = log_rendered(surface_log,
                                   resize_surface_if_needed.configured)

\* --------------------------------------------------------------- ParticleInk
\* Mutant of enter_frame: the reset one frame late.
enter_frame_late(index, count) ==
    IF index + 1 > count
    THEN [animate_index |-> 0, is_completed |-> TRUE]
    ELSE [animate_index |-> index + 1, is_completed |-> FALSE]

\* The tail of ParticleInk::enter_frame: advance animate_index, reset it at
\* frame_count and report the completed cycle.
enter_frame(index, count) ==
    IF index + 1 = count
    THEN [animate_index |-> 0, is_completed |-> TRUE]
    ELSE [animate_index |-> index + 1, is_completed |-> FALSE]

\* Byte stride of one record of the frame uniform buffer.
ink_offset_stride == 256

\* Mutant of ink_dynamic_offset: the slice of the following step.
ink_dynamic_offset_next(index) == ink_offset_stride * (index + 1)

\* The dynamic offset ParticleInk::enter_frame binds for its draw.
ink_dynamic_offset(index) == ink_offset_stride * index

\* ParticleInk::enter_frame: the draw with the dynamic offset of the current
\* index, then the advance.
enter_frame_call ==
    /\ ink_calls < MaxBlocks * frame_count
    /\ ink_dyn_off' = <<ink_dynamic_offset(ink_animate_index)>>
    /\ LET r == enter_frame(ink_animate_index, frame_count)
       IN  /\ ink_animate_index' = r.animate_index
           /\ ink_completed' = r.is_completed
           /\ ink_trues' = ink_trues + (IF r.is_completed THEN 1 ELSE 0)
    /\ ink_calls' = ink_calls + 1
    /\ UNCHANGED notInk

EnterFrame ==
    /\ enter_frame_call
    /\ UNCHANGED <<ink_pass, ink_resets>>

\* Mutant of cal_particles_move: the reset in the last frame of a cycle.
cal_particles_move_last(index) ==
    IF index = frame_count - 1 THEN <<"reset", "move">> ELSE <<"move">>

\* ParticleInk::cal_particles_move: the computations recorded, in order, in
\* the one compute pass it begins.
cal_particles_move(index) ==
    IF index = 0 THEN <<"reset", "move">> ELSE <<"move">>

\* One frame of the particle animation: cal_particles_move on the encoder,
\* then enter_frame on the render pass.
InkFrame ==
    /\ LET pass == cal_particles_move(ink_animate_index)
       IN  /\ ink_pass' = pass
           /\ ink_resets' = ink_resets + (IF pass[1] = "reset" THEN 1 ELSE 0)
    /\ enter_frame_call

\* ------------------------------------------------------ frame uniform tables
\* A value computed in f32 is modelled by the exact quotient num / den.
ratio(num, den) == [num |-> num, den |-> den]
ratio_div(a, b) == ratio(a.num * b.den, a.den * b.num)
ratio_mul(a, b) == ratio(a.num * b.num, a.den * b.den)
ratio_sub(a, b) == ratio(a.num * b.den - b.num * a.den, a.den * b.den)
ratio_eq(a, b) == a.num * b.den = b.num * a.den
ratio_lt(a, b) == a.num * b.den < b.num * a.den

\* Mutant of near_target_ratio: the step divided by the number of steps.
near_target_ratio_short(step, n) == ratio_div(ratio(step, 1), ratio(n, 1))

\* HilbertUniform.near_target_ratio of a step: step / (draw_count - 1)
near_target_ratio(step, n) == ratio_div(ratio(step, 1), ratio(n - 1, 1))

\* HilbertUniform.depth_bias of a step: 1.0 lowered by 0.01 per earlier step
depth_bias(step) == ratio_sub(ratio(1, 1), ratio(step, 100))

HilbertUniform(step, n) ==
    [near_target_ratio |-> near_target_ratio(step, n),
     depth_bias |-> depth_bias(step)]

\* queue.write_buffer(buffer, offset, record) on a uniform buffer, modelled
\* by the records written and the byte offsets they start at.
write_uniform(buf, offset, record) ==
    [o \in DOMAIN buf \cup {offset} |->
        IF o = offset THEN record ELSE buf[o]]

\* One turn of the loop of HilbertCurveApp::new that fills hilbert_buf.
WriteHilbertUniform ==
    /\ call.fn = "HilbertCurveApp::new"
    /\ call.step < call.n
    /\ call' = [call EXCEPT
            !.out = write_uniform(call.out, offset_buffer_size * call.step,
                                  HilbertUniform(call.step, call.n)),
            !.step = call.step + 1]
    /\ UNCHANGED <<hilbertVars, inkVars, t2Vars, option>>

\* hilbert_buf as HilbertCurveApp::new leaves it: for every step the record
\* of the step at byte offset offset_buffer_size * step.
hilbert_buf ==
    [offset \in {offset_buffer_size * step : step \in 0..(draw_count - 1)} |->
        HilbertUniform(CHOOSE step \in 0..(draw_count - 1) :
                           offset_buffer_size * step = offset,
                       draw_count)]

\* Mutant of frame_alpha: the records count from one.
frame_alpha_from_one(frame_cunt, i) ==
    LET step == ratio_div(ratio(1, 1), ratio_div(ratio(frame_cunt, 1),
                                                 ratio(4, 1)))
    IN  ratio_mul(step, ratio(i + 1, 1))

\* init_frame_uniforms: frame_alpha of record i, step * i with
\* step = 1.0 / (frame_cunt / 4.0)
frame_alpha(frame_cunt, i) ==
    LET step == ratio_div(ratio(1, 1), ratio_div(ratio(frame_cunt, 1),
                                                 ratio(4, 1)))
    IN  ratio_mul(step, ratio(i, 1))

\* One turn of the loop of init_frame_uniforms: arr.push(...)
PushFrameUniform ==
    /\ call.fn = "init_frame_uniforms"
    /\ call.step < call.n
    /\ call' = [call EXCEPT
            !.out = Append(call.out,
                           [frame_alpha |-> frame_alpha(call.n, call.step)]),
            !.step = call.step + 1]
    /\ UNCHANGED <<hilbertVars, inkVars, t2Vars, option>>

\* init_frame_uniforms(frame_cunt) as a function of its argument: the
\* vector of the records pushed for i = 0 .. frame_cunt - 1.
init_frame_uniforms(frame_cunt) ==
    [k \in 1..frame_cunt |->
        [frame_alpha |-> frame_alpha(frame_cunt, k - 1)]]

\* frame_buf as ParticleInk::new leaves it: for every step, uniforms[step]
\* at byte offset 256 * step.
frame_buf ==
    LET uniforms == init_frame_uniforms(frame_count)
    IN  [offset \in {ink_offset_stride * step :
                        step \in 0..(frame_count - 1)} |->
            uniforms[1 + (CHOOSE step \in 0..(frame_count - 1) :
                              ink_offset_stride * step = offset)]]

\* HilbertCurveApp::new about to fill hilbert_buf.
InitHilbertUniforms ==
    /\ Constructed
    /\ option = NoOption
    /\ call = [fn |-> "HilbertCurveApp::new", n |-> draw_count, step |-> 0,
               out |-> <<>>]

\* init_frame_uniforms called with a frame count.
InitFrameUniforms ==
    /\ Constructed
    /\ option = NoOption
    /\ \E frame_cunt \in (1..MaxFrameCount) \cup {frame_count} :
          call = [fn |-> "init_frame_uniforms", n |-> frame_cunt, step |-> 0,
                  out |-> <<>>]

\* -------------------------------------------------------------- OptionMutExt
Values == 0..MaxValue
Options == {<<>>} \cup {<<x>> : x \in Values}

\* std::mem::replace(dest, src): src is stored and the old content returned.
mem_replace(dest, src) == [opt |-> src, ret |-> dest]

\* Mutant of replace_sp: None is left alone.
replace_sp_if_some(opt, val) ==
    IF opt = <<>> THEN [opt |-> opt, ret |-> <<>>]
    ELSE mem_replace(opt, <<val>>)

\* OptionMutExt::replace_sp
replace_sp(opt, val) == mem_replace(opt, <<val>>)

\* OptionMutExt::replace_with_sp: the closure, which returns f_value, is run
\* once to build the new content.
replace_with_sp(opt, f_value) ==
    LET r == mem_replace(opt, <<f_value>>)
    IN  [opt |-> r.opt, ret |-> r.ret, f_calls |-> 1]

ReplaceSp ==
    /\ \E val \in Values :
          LET r == replace_sp(option.opt, val)
          IN  option' = [opt |-> r.opt, op |-> "replace_sp",
                         before |-> option.opt, val |-> val, ret |-> r.ret,
                         f_calls |-> 0]
    /\ UNCHANGED <<hilbertVars, inkVars, t2Vars, call>>

ReplaceWithSp ==
    /\ \E f_value \in Values :
          LET r == replace_with_sp(option.opt, f_value)
          IN  option' = [opt |-> r.opt, op |-> "replace_with_sp",
                         before |-> option.opt, val |-> f_value,
                         ret |-> r.ret, f_calls |-> r.f_calls]
    /\ UNCHANGED <<hilbertVars, inkVars, t2Vars, call>>

\* An Option of any content, before the first call.
InitOption ==
    /\ Constructed
    /\ call = NoCall
    /\ \E opt \in Options : option = [NoOption EXCEPT !.opt = opt]

\* --------------------------------------------------------- tutorial2-surface
\* Sizes a window can report: a minimised window has a zero side.
WindowSizes == [width : 0..MaxWidth, height : 0..MaxHeight]

max(a, b) == IF a >= b THEN a ELSE b

\* WgpuApp::new: the surface is configured with the window's inner size, each
\* side raised to at least 1.
t2_new(inner) ==
    LET s == [width |-> max(inner.width, 1), height |-> max(inner.height, 1)]
    IN  [size |-> s, size_changed |-> FALSE, config |-> s]

\* Mutant of t2_set_window_resized: the surface is reconfigured at once.
t2_set_window_resized_eager(app, new_size) ==
    IF new_size = app.size
    THEN app
    ELSE [app EXCEPT !.size = new_size, !.size_changed = TRUE,
                     !.config = new_size]

\* WgpuApp::set_window_resized (tutorial2-surface)
t2_set_window_resized(app, new_size) ==
    IF new_size = app.size
    THEN app
    ELSE [app EXCEPT !.size = new_size, !.size_changed = TRUE]

\* WgpuApp::resize_surface_if_needed (tutorial2-surface); configured counts
\* the calls of surface.configure.
t2_resize_surface_if_needed(app) ==
    IF app.size_changed
    THEN [app |-> [app EXCEPT !.config = app.size, !.size_changed = FALSE],
          configured |-> 1]
    ELSE [app |-> app, configured |-> 0]

\* Mutant of t2_render: the frame is submitted whatever the acquisition gave.
t2_render_regardless(app, acquire) ==
    IF app.size.width = 0 \/ app.size.height = 0
    THEN [app |-> app, configured |-> 0, result |-> "skipped",
          returned |-> "ok", submitted |-> FALSE]
    ELSE LET r == t2_resize_surface_if_needed(app)
         IN  [app |-> r.app, configured |-> r.configured,
              result |-> IF acquire = "ok" THEN "presented" ELSE acquire,
              returned |-> acquire, submitted |-> TRUE]

\* WgpuApp::render (tutorial2-surface): nothing is done for a zero size;
\* otherwise the surface is brought up to date before the frame is acquired.
\* returned is Ok ("ok") or the SurfaceError of get_current_texture()?
\* ("lost", "other"); submitted tells whether queue.submit and
\* output.present were reached.
t2_render(app, acquire) ==
    IF app.size.width = 0 \/ app.size.height = 0
    THEN [app |-> app, configured |-> 0, result |-> "skipped",
          returned |-> "ok", submitted |-> FALSE]
    ELSE LET r == t2_resize_surface_if_needed(app)
         IN  [app |-> r.app, configured |-> r.configured,
              result |-> IF acquire = "ok" THEN "presented" ELSE acquire,
              returned |-> acquire, submitted |-> acquire = "ok"]

\* Mutant of record_missed_resize: a size with a zero side is recorded too.
record_missed_resize_any(missed, new_size) == new_size

\* Mutant of record_missed_resize: the first missed size is kept.
record_missed_resize_first(missed, new_size) ==
    IF new_size.width > 0 /\ new_size.height > 0 /\ missed = NoSize
    THEN new_size
    ELSE missed

\* WgpuAppHandler::window_event, Resized while the app is not there: a
\* non-zero size replaces the recorded missed_resize.
record_missed_resize(missed, new_size) ==
    IF new_size.width > 0 /\ new_size.height > 0
    THEN new_size
    ELSE missed

\* Mutant of redraw_after_init: a missed redraw is not made up for.
redraw_after_init_forgotten(requested, missed) == requested

\* The end of the task spawned by resumed(): if a redraw was missed,
\* window.request_redraw() is called.
redraw_after_init(requested, missed) == requested \/ missed

\* The observation made by a handler: the last render() call where the frames
\* are watched, the minimised window where the zero sizes are watched.
frame_watched(watch, rendered, minimised) ==
    IF watch = "frame" THEN rendered
    ELSE IF watch = "minimise" THEN [t2_frame EXCEPT !.minimised = minimised]
    ELSE t2_frame

\* WgpuAppHandler::resumed: nothing if the app exists; otherwise a window is
\* created and the app is built, at once on native targets and by a spawned
\* task on wasm32.
Resumed(watch) ==
    \E target \in {"native", "wasm32"} :
        /\ t2_target \in {"unstarted", target}
        /\ t2_target' = target
        /\ IF t2_app # <<>>
           THEN UNCHANGED <<t2_app, t2_tasks, t2_windows, t2_log>>
           ELSE /\ t2_tasks < MaxTasks
                /\ t2_windows' = t2_windows + 1
                /\ IF target = "wasm32"
                   THEN /\ t2_tasks' = t2_tasks + 1
                        /\ UNCHANGED <<t2_app, t2_log>>
                   ELSE /\ \E inner \in WindowSizes :
                               t2_app' = <<t2_new(inner)>>
                        /\ t2_log' = NoLog
                        /\ UNCHANGED t2_tasks
        /\ t2_frame' = frame_watched(watch, t2_frame, FALSE)
        /\ UNCHANGED <<t2_missed_resize, t2_missed_request_redraw, t2_redraw,
                       t2_early, t2_applied, notT2>>

\* The task spawned by resumed() on wasm32 runs to its end: the app is
\* stored, a missed resize is applied and a missed redraw is requested.
InitComplete(watch) ==
    /\ t2_tasks > 0
    /\ t2_tasks' = t2_tasks - 1
    /\ \E inner \in WindowSizes :
          LET app0 == t2_new(inner)
          IN  t2_app' = <<IF t2_missed_resize # NoSize
                          THEN t2_set_window_resized(app0, t2_missed_resize)
                          ELSE app0>>
    /\ t2_applied' = IF watch = "init" THEN t2_missed_resize ELSE t2_applied
    /\ t2_redraw' = redraw_after_init(t2_redraw, t2_missed_request_redraw)
    /\ t2_log' = NoLog
    /\ t2_frame' = frame_watched(watch, NoT2Frame, FALSE)
    /\ UNCHANGED <<t2_target, t2_missed_resize, t2_missed_request_redraw,
                   t2_windows, t2_early, notT2>>

\* WgpuAppHandler::window_event, WindowEvent::Resized(new_size)
ResizedTo(watch, new_size) ==
    /\ t2_windows > 0
    /\    IF t2_app = <<>>
          THEN /\ t2_missed_resize' =
                      record_missed_resize(t2_missed_resize, new_size)
               /\ t2_early' =
                      IF watch = "init" /\ new_size.width > 0
                                       /\ new_size.height > 0
                      THEN new_size
                      ELSE t2_early
               /\ UNCHANGED <<t2_app, t2_log>>
          ELSE /\ IF new_size.width = 0 \/ new_size.height = 0
                  THEN UNCHANGED <<t2_app, t2_log>>
                  ELSE /\ t2_app' = <<t2_set_window_resized(t2_app[1],
                                                            new_size)>>
                       /\ t2_log' = IF watch = "surface"
                                     THEN log_notified(t2_log)
                                     ELSE t2_log
               /\ UNCHANGED <<t2_missed_resize, t2_early>>
    /\ t2_frame' = frame_watched(watch, t2_frame,
                                 new_size.width = 0 \/ new_size.height = 0)
    /\ UNCHANGED <<t2_target, t2_missed_request_redraw, t2_tasks, t2_windows,
                   t2_redraw, t2_applied, notT2>>

Resized(watch) == \E new_size \in WindowSizes : ResizedTo(watch, new_size)

\* WgpuAppHandler::window_event, WindowEvent::RedrawRequested
RedrawRequested(watch) ==
    /\ t2_windows > 0
    /\ IF t2_app = <<>>
       THEN /\ t2_missed_request_redraw' = TRUE
            /\ t2_redraw' = FALSE
            /\ t2_frame' = frame_watched(watch, t2_frame, FALSE)
            /\ UNCHANGED <<t2_app, t2_log>>
       ELSE /\ \E acquire \in {"ok", "lost", "other"} :
                  LET r == t2_render(t2_app[1], acquire)
                  IN  /\ t2_app' = <<r.app>>
                      /\ t2_log' = IF watch = "surface"
                                    THEN log_rendered(t2_log, r.configured)
                                    ELSE t2_log
                      /\ t2_frame' = frame_watched(watch,
                                          [returned |-> r.returned,
                                           submitted |-> r.submitted,
                                           minimised |-> FALSE],
                                          FALSE)
            /\ t2_redraw' = TRUE
            /\ UNCHANGED t2_missed_request_redraw
    /\ UNCHANGED <<t2_target, t2_missed_resize, t2_tasks, t2_windows,
                   t2_early, t2_applied, notT2>>

\* The handlers with the missed events watched (t2_early, t2_applied) ...
T2Resumed == Resumed("init")
T2InitComplete == InitComplete("init")
T2Resized == Resized("init")
T2RedrawRequested == RedrawRequested("init")

\* ... and with the surface reconfigurations watched (t2_log).
SurfaceResumed == Resumed("surface")
SurfaceResized == Resized("surface")
SurfaceRedrawRequested == RedrawRequested("surface")

\* ... and with the frames watched (t2_frame).
FrameResumed == Resumed("frame")
FrameInitComplete == InitComplete("frame")
FrameResized == Resized("frame")
FrameRedrawRequested == RedrawRequested("frame")
\* A redraw that was requested is delivered.
FrameRedrawDelivered == t2_redraw /\ FrameRedrawRequested

\* ... and with the Resized events of a minimised window watched.
MinimiseResumed == Resumed("minimise")
MinimiseInitComplete == InitComplete("minimise")
MinimiseResized == Resized("minimise")
MinimiseRedrawRequested == RedrawRequested("minimise")

\* ------------------------------------------------------------ specifications
Next == SetWindowResized \/ Render
Spec == Init /\ [][Next]_vars

\* render() is called again and again for as long as the program runs.
NextLive == Render
SpecLive == Init /\ [][NextLive]_vars /\ WF_vars(Render)

NextSmall == RenderSmall
SpecSmall == Init /\ [][NextSmall]_vars

NextResize == NotifyResized \/ RenderFirst
SpecResize == Init /\ [][NextResize]_vars

NextInk == EnterFrame
SpecInk == Init /\ [][NextInk]_vars

NextInkFrame == InkFrame
SpecInkFrame == Init /\ [][NextInkFrame]_vars

NextHilbertUniforms == WriteHilbertUniform
SpecHilbertUniforms == InitHilbertUniforms /\ [][NextHilbertUniforms]_vars

NextFrameUniforms == PushFrameUniform
SpecFrameUniforms == InitFrameUniforms /\ [][NextFrameUniforms]_vars

\* One program draws: HilbertCurveApp or ParticleInk.
InkIdle == ink_calls = 0
HilbertUntouched == frame = NoFrame /\ ~size_changed
NextDraw == (InkIdle /\ Next) \/ (HilbertUntouched /\ NextInk)
SpecDraw == Init /\ [][NextDraw]_vars

NextOption == ReplaceSp \/ ReplaceWithSp
SpecOption == InitOption /\ [][NextOption]_vars

NextT2 == T2Resumed \/ T2InitComplete \/ T2Resized \/ T2RedrawRequested
SpecT2 == Init /\ [][NextT2]_vars

NextT2Frame ==
    FrameResumed \/ FrameInitComplete \/ FrameResized \/ FrameRedrawRequested
SpecT2Frame == Init /\ [][NextT2Frame]_vars

NextT2Minimise ==
    \/ MinimiseResumed
    \/ MinimiseInitComplete
    \/ MinimiseResized
    \/ MinimiseRedrawRequested
SpecT2Minimise == Init /\ [][NextT2Minimise]_vars
\* A spawned initialization runs to its end and the event loop delivers
\* every redraw that was requested.
SpecT2Live ==
    /\ Init /\ [][NextT2Frame]_vars
    /\ WF_vars(FrameInitComplete)
    /\ WF_vars(FrameRedrawDelivered)

\* One program runs, HilbertCurveApp or tutorial2-surface, and the surface
\* reconfigurations are watched from the moment resumed() has built the app.
HilbertIdle == surface_log = NoLog
T2Idle == t2_target = "unstarted"
NextSurfaceT2 == SurfaceResumed \/ SurfaceResized \/ SurfaceRedrawRequested
NextSurface == (T2Idle /\ NextResize) \/ (HilbertIdle /\ NextSurfaceT2)
SpecSurface == Init /\ [][NextSurface]_vars

\* -------------------------------------------------------------------- claims
\* A wraparound of animate_index in a render() call.
Wraparound == Render /\ animate_index' = 0

\* C1: the dimension oscillates 1,2,3,4,5,6,5,4,3,2,1,2,...: it stays within
\* [1,6], every wraparound changes it by exactly +1 or -1 in the current
\* direction, and the direction flips exactly in the wraparounds that start
\* at 6 while ascending or at 1 while descending.
C1_Oscillation ==
    [][/\ curve_dimention' \in 1..6
       /\ Wraparound =>
            LET flip == \/ is_animation_up /\ curve_dimention = 6
                        \/ ~is_animation_up /\ curve_dimention = 1
            IN  /\ is_animation_up' = (is_animation_up # flip)
                /\ curve_dimention' = IF is_animation_up'
                                      THEN curve_dimention + 1
                                      ELSE curve_dimention - 1]_vars

\* C1 witness: the wraparound that started at 6 ascending has turned the
\* animation around and its frame was drawn.
C1_Witness ==
    /\ frame.wrapped /\ frame.result = "drawn"
    /\ ~is_animation_up /\ curve_dimention = 5

\* Phase after w wraparounds of an animation oscillating within 1..maxd.
Triangle(w, maxd) ==
    LET period == 2 * (maxd - 1)
        p == w % period
    IN  1 + (IF p <= maxd - 1 THEN p ELSE period - p)

\* C2 as claimed: every phase, the initial one included, is in effect at the
\* draw of exactly draw_count consecutive render() calls, so the k-th call
\* draws phase Triangle((k-1) div draw_count): [1,1,1,2,2,2,1,1,1,2,2,2].
C2_Claimed ==
    \A k \in 1..Len(trace) :
        trace[k] # 0 =>
            trace[k] = Triangle((k - 1) \div SmallDrawCount, SmallMaxPhase)

\* C2 as amended: the index is advanced before the draw, so the initial
\* phase is drawn by draw_count - 1 calls only and every later phase by
\* draw_count calls: the k-th call draws phase Triangle(k div draw_count),
\* [1,1,2,2,2,1,1,1,2,2,2,1].
C2_PhaseAtDraw ==
    \A k \in 1..Len(trace) :
        trace[k] # 0 =>
            trace[k] = Triangle(k \div SmallDrawCount, SmallMaxPhase)

\* C2 witness: twelve consecutive frames were drawn from the initial state.
C2_Witness == trace = <<1, 1, 2, 2, 2, 1, 1, 1, 2, 2, 2, 1>>

\* C3: every render() call advances animate_index by exactly 1 modulo
\* draw_count, and changes curve_dimention or is_animation_up if and only
\* if animate_index wraps to 0 in that call; no other step touches them.
C3_IndexAndTransition ==
    [][/\ Render =>
            /\ animate_index' = (animate_index + 1) % 180
            /\ (\/ curve_dimention' # curve_dimention
                \/ is_animation_up' # is_animation_up) <=> animate_index' = 0
       /\ ~Render =>
            UNCHANGED <<animate_index, curve_dimention, is_animation_up>>]_vars

\* C3 witness: a call wrapped the index and entered dimension 2.
C3_Witness ==
    /\ frame.wrapped /\ animate_index = 0
    /\ curve_dimention = 2 /\ is_animation_up

\* C4: after n enter_frame calls animate_index is n mod frame_count (within
\* [0, frame_count - 1], one step per call), and enter_frame has returned
\* true exactly once per block of frame_count calls, on the block's last.
C4_CycleReset ==
    /\ ink_animate_index \in 0..(180 - 1)
    /\ ink_animate_index = ink_calls % 180
    /\ ink_trues = ink_calls \div 180
    /\ ink_calls > 0 => (ink_completed <=> ink_calls % 180 = 0)

\* C4 witness: the 180th call has completed the first cycle.
C4_Witness ==
    /\ ink_calls = 180 /\ ink_completed
    /\ ink_animate_index = 0 /\ ink_trues = 1
\* C5 as claimed: a render() call that fails to acquire the surface image
\* leaves animate_index, curve_dimention, is_animation_up,
\* curve_vertex_count and both vertex buffers as they were.
C5_Claimed ==
    [][Render /\ frame'.result = "skipped" =>
          UNCHANGED <<animate_index, curve_dimention, is_animation_up,
                      curve_vertex_count, vertex_buffers>>]_vars

\* C5 as amended: a render() call that fails to acquire the surface image
\* has already advanced the animation: animate_index moved one step modulo
\* draw_count, a wraparound changed the phase, the first call or a
\* wraparound set curve_vertex_count for the new transition, and any other
\* call left phase, count and buffers alone.  The retried frame therefore
\* draws the frame after the skipped one.
C5_SkippedFrameAdvances ==
    [][Render /\ frame'.result = "skipped" =>
          /\ animate_index' = (animate_index + 1) % 180
          /\ animate_index' = 0 =>
                \/ curve_dimention' = curve_dimention + 1
                \/ curve_dimention' = curve_dimention - 1
          /\ (animate_index' = 0 \/ curve_vertex_count = 0) =>
                /\ frame'.target_len > 0
                /\ curve_vertex_count' = frame'.target_len
          /\ (animate_index' # 0 /\ curve_vertex_count # 0) =>
                UNCHANGED <<curve_dimention, is_animation_up,
                            curve_vertex_count, vertex_buffers>>]_vars

\* C5 witness: a call that wrapped the index, entered dimension 3 and then
\* failed to acquire the surface image.
C5_Witness ==
    /\ frame.result = "skipped" /\ frame.wrapped
    /\ animate_index = 0 /\ curve_dimention = 3

\* C6: the start and target vertex sets of every populate fit the capacity
\* allocated at construction, 48 bytes x the vertex count of dimension 5,
\* with 12-byte vertex records.
C6_Claimed ==
    /\ frame.start_len * 12 <= 48 * VertexCount(5)
    /\ frame.target_len * 12 <= 48 * VertexCount(5)

\* C7: in every render() call that reaches the draw, the instance count is
\* the number of records most recently written to vertex_buffers[1], minus
\* one, saturating at 0.
C7_Claimed ==
    frame.result = "drawn" =>
        frame.instance_count =
            (IF vertex_buffers[2].len >= 1 THEN vertex_buffers[2].len - 1
             ELSE 0)

\* C8: at every draw both ping-pong buffers have been written, and the
\* number of records last written to each is at least instance_count + 1.
C8_Claimed ==
    frame.result = "drawn" =>
        \A i \in 1..2 :
            /\ vertex_buffers[i].len > 0
            /\ vertex_buffers[i].len >= frame.instance_count + 1

\* C9: curve_vertex_count and the vertex buffers change only in a render()
\* call that is the first one or wraps animate_index to 0, and every call
\* that wraps animate_index and reaches its draw has rewritten both buffers.
C9_Claimed ==
    [][/\ (\/ curve_vertex_count' # curve_vertex_count
           \/ vertex_buffers' # vertex_buffers) =>
             Render /\ (curve_vertex_count = 0 \/ animate_index' = 0)
       /\ (Render /\ animate_index' = 0 /\ frame'.result = "drawn") =>
             frame'.wrote = {1, 2}]_vars

\* C10: after any sequence of set_window_resized notifications followed by
\* one render(), the surface configuration equals the dimensions carried by
\* the most recent notification.
C10_Claimed ==
    [][(RenderFirst /\ notified # NoSize) => config' = notified]_vars

\* C11: a resize notification leaves the surface configuration, the
\* projection and the vertex buffers as they are, whatever the number of
\* notifications, and a render() call reconfigures the surface at most once
\* (HilbertCurveApp and tutorial2-surface).
C11_DeferredResize ==
    [][/\ NotifyResized =>
            /\ config' = config
            /\ mvp_viewport' = mvp_viewport
            /\ vertex_buffers' = vertex_buffers
            /\ surface_log'.configured = surface_log.configured
       /\ RenderFirst => surface_log'.configured <= 1
       /\ (SurfaceResized /\ t2_app # <<>>) =>
            /\ t2_app' # <<>>
            /\ t2_app'[1].config = t2_app[1].config
            /\ t2_log'.configured = t2_log.configured
       /\ (SurfaceRedrawRequested /\ t2_app # <<>>) =>
            t2_log'.configured <= 1]_vars

\* C11 witness: several notifications arrived between two frames of
\* tutorial2-surface and the next render() reconfigured the surface once.
C11_Witness ==
    /\ t2_log.rendered /\ t2_log.before >= 2 /\ t2_log.configured = 1
    /\ t2_app # <<>> /\ t2_app[1].config = t2_app[1].size

\* C12: a render() call that follows another with no resize notification in
\* between reconfigures nothing and leaves the surface configuration, the
\* projection and the dirty flag as they are; a call that finds the dirty
\* flag set reconfigures exactly once and clears it.
C12_Idempotent ==
    [][/\ RenderFirst =>
            /\ size_changed => surface_log'.configured = 1
            /\ ~size_changed'
            /\ (surface_log.rendered /\ surface_log.since = 0) =>
                    /\ surface_log'.configured = 0
                    /\ UNCHANGED <<config, mvp_viewport, size_changed>>
       /\ (SurfaceRedrawRequested /\ t2_app # <<>>) =>
            /\ t2_app[1].size_changed => t2_log'.configured = 1
            /\ ~t2_app'[1].size_changed
            /\ (t2_log.rendered /\ t2_log.since = 0) =>
                    /\ t2_log'.configured = 0
                    /\ t2_app'[1] = t2_app[1]]_vars

\* C12 witness: HilbertCurveApp rendered twice in a row; the first call
\* reconfigured the surface, the second did not.
C12_Witness ==
    /\ surface_log.twice /\ surface_log.configured = 0
    /\ ~size_changed /\ config = size

\* C13: cal_particles_move records the reset computation exactly when
\* animate_index is 0, before the move computation and in the same pass, and
\* the move computation in every call; called before enter_frame in each
\* frame, the reset runs exactly in the frames drawn with dynamic offset 0,
\* once per frame_count frames.
C13_ResetAtCycleStart ==
    [][InkFrame =>
        /\ ink_pass' = IF ink_animate_index = 0 THEN <<"reset", "move">>
                       ELSE <<"move">>
        /\ (ink_pass'[1] = "reset") = (ink_dyn_off' = <<0>>)
        /\ ink_resets' = (ink_calls' + frame_count - 1) \div frame_count]_vars

\* C13 witness: the first frame of the second cycle recorded the second
\* reset and was drawn with dynamic offset 0.
C13_Witness ==
    /\ ink_calls = frame_count + 1 /\ ink_resets = 2
    /\ ink_pass = <<"reset", "move">> /\ ink_dyn_off = <<0>>

\* C14: every draw binds the dynamic offset 256 x animate_index with
\* 0 <= animate_index < frame count; the 256-byte slice at that offset lies
\* inside the frame_count x 256-byte uniform buffer and holds the record
\* written at initialization for step = animate_index (HilbertCurveApp::render
\* draws after advancing the index, ParticleInk::enter_frame before).
C14_DynamicOffset ==
    [][/\ (Render /\ frame'.result = "drawn") =>
            /\ animate_index' \in 0..(draw_count - 1)
            /\ frame'.dyn_off = 256 * animate_index'
            /\ frame'.dyn_off % 256 = 0
            /\ frame'.dyn_off + 256 <= draw_count * 256
            /\ frame'.dyn_off \in DOMAIN hilbert_buf
            /\ hilbert_buf[frame'.dyn_off] =
                    HilbertUniform(animate_index', draw_count)
       /\ EnterFrame =>
            /\ ink_animate_index \in 0..(frame_count - 1)
            /\ ink_dyn_off' = <<256 * ink_animate_index>>
            /\ ink_dyn_off'[1] % 256 = 0
            /\ ink_dyn_off'[1] + 256 <= frame_count * 256
            /\ ink_dyn_off'[1] \in DOMAIN frame_buf
            /\ frame_buf[ink_dyn_off'[1]] =
                    init_frame_uniforms(frame_count)[ink_animate_index + 1]
      ]_vars

\* C14 witness: the last frame of a ParticleInk cycle was drawn from the last
\* slice of the buffer.
C14_Witness ==
    /\ ink_completed /\ ink_dyn_off = <<256 * (frame_count - 1)>>
    /\ ink_animate_index = 0

\* C15: the loop of HilbertCurveApp::new writes one record per step at byte
\* offset 256 x step, draw_count records in all; record 0 holds ratio 0,
\* record draw_count - 1 holds ratio 1, and the ratio grows strictly with the
\* step.
C15_HilbertUniformTable ==
    /\ DOMAIN call.out = {256 * k : k \in 0..(call.step - 1)}
    /\ call.step <= draw_count
    /\ \A k \in 0..(call.step - 1) :
          /\ ratio_eq(call.out[256 * k].near_target_ratio,
                      ratio(k, draw_count - 1))
          /\ k > 0 => ratio_lt(call.out[256 * (k - 1)].near_target_ratio,
                               call.out[256 * k].near_target_ratio)
    /\ call.step > 0 =>
          ratio_eq(call.out[0].near_target_ratio, ratio(0, 1))
    /\ call.step = draw_count =>
          /\ Cardinality(DOMAIN call.out) = draw_count
          /\ ratio_eq(call.out[256 * (draw_count - 1)].near_target_ratio,
                      ratio(1, 1))
          /\ call.out = hilbert_buf

\* C15 witness: the loop has written its last record.
C15_Witness ==
    /\ call.fn = "HilbertCurveApp::new" /\ call.step = draw_count
    /\ Cardinality(DOMAIN call.out) = draw_count

\* C16: init_frame_uniforms(n) returns n records, record i holding
\* i x 4 / n: record 0 holds 0 and the values grow strictly with the index;
\* the result depends on n alone.
C16_FrameUniforms ==
    /\ Len(call.out) = call.step
    /\ call.step <= call.n
    /\ \A i \in 0..(call.step - 1) :
          /\ ratio_eq(call.out[i + 1].frame_alpha, ratio(i * 4, call.n))
          /\ i > 0 => ratio_lt(call.out[i].frame_alpha,
                               call.out[i + 1].frame_alpha)
    /\ call.step > 0 => ratio_eq(call.out[1].frame_alpha, ratio(0, 1))
    /\ call.step = call.n =>
          /\ Len(call.out) = call.n
          /\ call.out = init_frame_uniforms(call.n)

\* C16 witness: the call for 180 frames has returned its 180 records.
C16_Witness ==
    /\ call.fn = "init_frame_uniforms" /\ call.n = frame_count
    /\ call.step = call.n /\ Len(call.out) = frame_count

\* C17 as claimed: under repeated render() calls the animation never comes to
\* rest: every dimension 1..6 is entered again and again, and the animation
\* is ascending again and again and descending again and again.
C17_Claimed ==
    /\ \A d \in 1..6 : []<>(curve_dimention = d)
    /\ []<>is_animation_up
    /\ []<>(~is_animation_up)

C19_Claimed ==
    option.op # "none" =>
        /\ option.before # <<>> =>
              option.opt = <<option.val>> /\ option.ret = option.before
        /\ option.ret = <<>> => option.opt = option.before
        /\ option.before = <<>> => option.opt = <<>>

C22_Claimed ==
    (frame.first \/ frame.wrapped) => frame.start_len = frame.target_len

\* C23 as claimed: in every populate the start dimension and the target
\* dimension of the transition lie in 1..6.
C23_Claimed ==
    (frame.first \/ frame.wrapped) =>
        /\ frame.start_dim \in 1..6
        /\ frame.target_dim \in 1..6

\* C24 as claimed: when the last render() returned SurfaceError::Lost, the
\* next render() reconfigures the surface.
C24_Claimed ==
    [][(FrameRedrawRequested /\ t2_app # <<>> /\ t2_frame.returned = "lost") =>
            t2_resize_surface_if_needed(t2_app[1]).configured = 1]_vars

\* C25: with the app there, every RedrawRequested event ends with a redraw
\* requested, whatever render() returned, and render() never both returns an
\* error and submits or presents a frame.
C25_RedrawLoop ==
    /\ [][(FrameRedrawRequested /\ t2_app # <<>>) =>
            /\ t2_redraw'
            /\ t2_frame'.returned \in {"ok", "lost", "other"}]_vars
    /\ [](t2_frame.returned \in {"lost", "other"} => ~t2_frame.submitted)
\* render() failed with an error other than Lost and a redraw is requested.
C25_Witness ==
    /\ t2_app # <<>>
    /\ t2_frame.returned = "other"
    /\ ~t2_frame.submitted
    /\ t2_redraw

\* C26: a Resized event with a zero width or a zero height changes neither
\* the recorded size nor the dirty flag (nor the missed size while the app is
\* not there); the recorded size and the surface configuration always have
\* width >= 1 and height >= 1, and the configuration equals the recorded size
\* whenever size_changed is false.
C26_MinimisedIgnored ==
    /\ [][\A z \in WindowSizes :
            ((z.width = 0 \/ z.height = 0) /\ ResizedTo("minimise", z)) =>
                UNCHANGED <<t2_app, t2_missed_resize>>]_vars
    /\ [](t2_app # <<>> =>
            /\ t2_app[1].size.width >= 1 /\ t2_app[1].size.height >= 1
            /\ t2_app[1].config.width >= 1 /\ t2_app[1].config.height >= 1
            /\ (~t2_app[1].size_changed =>
                    t2_app[1].config = t2_app[1].size))
\* A minimised window is reported while a resize is still to be applied.
C26_Witness ==
    /\ t2_frame.minimised
    /\ t2_app # <<>>
    /\ t2_app[1].size_changed
    /\ t2_missed_resize # NoSize

C28_Claimed ==
    /\ t2_windows <= 1
    /\ t2_windows - t2_tasks <= 1

====
